---------------------------- MODULE Spec2Model ----------------------------
(***************************************************************************)
(* A model of the Cynical SecuritySpy client engine: the SecuritySpy       *)
(* session object (spy/core.py) with its event tap, its full-state         *)
(* fetches and its camera map, and the HTTP Request (asyn/http.py) that    *)
(* carries them.                                                           *)
(*                                                                         *)
(* Part I models the session at the level of the callouts a Request        *)
(* delivers (connected, reply head, tap record, end of stream, error),     *)
(* including continuations that arrive for a Request closed earlier.       *)
(* Part II models one Request at the level of bytes: the scan rules, the   *)
(* scanner and Request.incoming for the reply, _sendRequest for what is    *)
(* written.  Part III models a motion trigger of the plugin (plugin.py,    *)
(* CameraMotion) with its throttle.                                        *)
(***************************************************************************)
EXTENDS Integers, Sequences, FiniteSets, TLC

(***************************************************************************)
(* Bounds.                                                                 *)
(***************************************************************************)
\* Request objects of each kind that can be alive at the same time:
\* /++systemInfo fetches, event taps, list fetches.
MaxInfo == 2
MaxTap == 2
MaxList == 2
\* Camera numbers the server may declare: 1..MaxCam.
MaxCam == 3

InfoSlots == 1..MaxInfo
TapSlots == (MaxInfo + 1)..(MaxInfo + MaxTap)
ListSlots == (MaxInfo + MaxTap + 1)..(MaxInfo + MaxTap + MaxList)
Slots == 1..(MaxInfo + MaxTap + MaxList)
CamNums == 1..MaxCam

VARIABLES
    reqs,       \* slot -> Request object (kind "free": no object in the slot)
    events,     \* SecuritySpy._events: 0 (None) or the slot of a Request
    cameras,    \* SecuritySpy.cameras: camera number -> Camera record
    notes,      \* the callouts made by the last handler, in order
    last,       \* the last handler that ran: [op, r, snap, again, n, status]
    synced      \* the snapshot last reconciled, if no tap record, open()
                \* or other snapshot was processed since; else NoSnap

svars == <<reqs, events, cameras, notes, last, synced>>

\* Part II: one Request followed at the level of bytes.
VARIABLES
    http,       \* the Request object
    wire,       \* the bytes of the reply that have not arrived yet
    stream      \* all the bytes the server sends on the connection

hvars == <<http, wire, stream>>

\* Part III: one motion trigger of the plugin (plugin.py, CameraMotion).
VARIABLES
    trigger,    \* the CameraMotion object: its properties and last_motion
    motion,     \* the last call of matches: [camera, type, args, now, result]
    accepted    \* the times of the calls that returned True, in order

mvars == <<trigger, motion, accepted>>
vars == <<reqs, events, cameras, notes, last, synced, http, wire, stream,
          trigger, motion, accepted>>

\* No motion trigger is followed.
MotionIdle ==
    /\ trigger = [camera |-> 0, throttle |-> 1, type |-> "", trigger_reason |-> "",
                  recognition_type |-> "", recognition_threshold |-> 0,
                  recognition_negate |-> FALSE, last_motion |-> 0]
    /\ motion = [camera |-> 0, type |-> "", args |-> {}, now |-> 0, result |-> FALSE]
    /\ accepted = <<>>

(***************************************************************************)
(* Requests.  st is the Request's position in its life:                    *)
(*   "connecting"  the connector is pending (Request.open)                 *)
(*   "sent"        connected, request written, scanning for the reply head *)
(*   "body"        end-headers seen: body_reply is not None                *)
(*   "failed"      address resolution or connect failed: no connection     *)
(*   "closed"      close() was called on it                                *)
(* status is n_status (""), scan the rule set installed on the connection. *)
(***************************************************************************)
FreeReq == [kind |-> "free", st |-> "", status |-> "", scan |-> "", name |-> ""]

\* Request.__init__ / Request.open: resolve the address, start the connector.
NewReq(kind, name, resolved) ==
    [kind |-> kind, st |-> IF resolved THEN "connecting" ELSE "failed",
     status |-> "", scan |-> "", name |-> name]

\* The slots a new Request of a kind can take; it takes the lowest.
KindSlots(kind) ==
    CASE kind = "info" -> InfoSlots
      [] kind = "tap" -> TapSlots
      [] kind = "list" -> ListSlots
FreeSlots(rq, kind) == {s \in KindSlots(kind) : rq[s].kind = "free"}
Alloc(rq, kind) ==
    CHOOSE s \in FreeSlots(rq, kind) : \A t \in FreeSlots(rq, kind) : s <= t

(***************************************************************************)
(* Cameras.  A Camera record holds what Camera.__init__ reads from one     *)
(* <camera> element of ++systemInfo; device stands for the fields that     *)
(* _refresh never touches (devicename, devicetype, hasaudio, ptz, address).*)
(* armed is the set of arm states whose flag is True.                      *)
(***************************************************************************)
ARM_MOTION == "MotionCapture"
ARM_CONTINUOUS == "ContinuousCapture"
ARM_ACTIONS == "Actions"

NoCam == [number |-> 0, name |-> "", size |-> <<0, 0>>, connected |-> FALSE,
          armed |-> {}, sensitivity |-> 0, device |-> ""]

\* Camera.__init__ on a well-formed <camera> element for number n.
Camera(n, name, size, connected, armed, sensitivity, device) ==
    [number |-> n, name |-> name, size |-> size, connected |-> connected,
     armed |-> armed, sensitivity |-> sensitivity, device |-> device]

NoCameras == [n \in CamNums |-> NoCam]
Keys(cams) == {n \in CamNums : cams[n] # NoCam}

\* The session as one value, so that handlers compose as the code's calls do.
Session == [reqs |-> reqs, events |-> events, cameras |-> cameras,
            notes |-> <<>>]

\* Callable.callout on the SecuritySpy object or on a Camera: t is the
\* callout's state, n the camera it is about (0: the session), arg its
\* argument, cams the camera map a 'ready' carries.
Callout(t, n, arg) == [t |-> t, n |-> n, arg |-> arg, cams |-> NoCameras]
Note(S, t, n, arg) == [S EXCEPT !.notes = Append(@, Callout(t, n, arg))]

\* FilterCallable.close on a Request: the connection is released and no
\* further continuation is delivered for it.
RequestClose(S, r) == [S EXCEPT !.reqs[r].st = "closed"]

\* SecuritySpy.close
Close(S) ==
    IF S.events # 0
    THEN [RequestClose(S, S.events) EXCEPT !.events = 0]
    ELSE S

\* SecuritySpy._close_events
CloseEvents(S) ==
    IF S.events # 0
    THEN [RequestClose(S, S.events) EXCEPT !.events = 0]
    ELSE S

\* asyn.http.StatusError(n_status, v_status) as a callout's argument; the
\* reason phrase is the status line's and is not followed by the session.
StatusError(n_status) == "StatusError " \o n_status

\* SecuritySpy.update.reply, the error branch: pass the error on.
UpdateReplyError(S, what) == Note(S, "ERROR", 0, what)

\* SecuritySpy.update: start a request for /++systemInfo.  An address
\* resolution failure is delivered to reply() inside the constructor.
Update(S, resolved) ==
    LET S1 == [S EXCEPT !.reqs[Alloc(S.reqs, "info")] = NewReq("info", "", resolved)]
    IN  IF resolved THEN S1 ELSE UpdateReplyError(S1, "resolve")

\* SecuritySpy._fetch_list: reply() ignores everything but the body.
FetchList(S, name, resolved) ==
    [S EXCEPT !.reqs[Alloc(S.reqs, "list")] = NewReq("list", name, resolved)]

\* An error branch that restarts the tap as the 'body' branch does.
TapReplyErrorRestart(S, what) ==
    LET S1 == Note(CloseEvents(S), "ERROR", 0, what)
    IN  IF S.events # 0 /\ FreeSlots(S1.reqs, "tap") # {}
        THEN LET r == Alloc(S1.reqs, "tap")
             IN  [S1 EXCEPT !.reqs[r] = NewReq("tap", "", TRUE), !.events = r]
        ELSE S1

\* SecuritySpy._event_stream.reply, the error branch: close the tap the
\* session holds and pass the error on.  Nothing is restarted.
TapReplyError(S, what) == Note(CloseEvents(S), "ERROR", 0, what)

\* SecuritySpy._event_stream: start the event tap.  The Request is built
\* first (a resolution failure runs reply() with the error before the
\* constructor returns) and only then assigned to self._events.
EventStream(S, resolved) ==
    LET r == Alloc(S.reqs, "tap")
        S1 == [S EXCEPT !.reqs[r] = NewReq("tap", "", resolved)]
        S2 == IF resolved THEN S1 ELSE TapReplyError(S1, "resolve")
    IN  [S2 EXCEPT !.events = r]

\* SecuritySpy.open
Open(S, resolved) == Update([Close(S) EXCEPT !.cameras = NoCameras], resolved)

(***************************************************************************)
(* Reconciliation (SecuritySpy._configure, Camera._refresh).               *)
(***************************************************************************)
\* A change flag that also looks at the name.
ChangedOrRenamed(cam, update) ==
    \/ cam.armed # update.armed
    \/ cam.connected # update.connected
    \/ cam.sensitivity # update.sensitivity
    \/ cam.name # update.name

\* The change flag of Camera._refresh.
Changed(cam, update) ==
    \/ cam.armed # update.armed
    \/ cam.connected # update.connected
    \/ cam.sensitivity # update.sensitivity

\* A _refresh that forgets to take over the connectivity flag.
RefreshKeepsConnected(cam, update) ==
    [cam EXCEPT !.name = update.name, !.size = update.size,
                !.armed = update.armed, !.sensitivity = update.sensitivity]

\* A _refresh that takes over every field of the update.
RefreshTakesAll(cam, update) == update

\* Camera._refresh: merge update into cam; the fields not assigned stay.
Refresh(cam, update) ==
    [cam EXCEPT !.name = update.name, !.size = update.size,
                !.connected = update.connected, !.armed = update.armed,
                !.sensitivity = update.sensitivity]

\* A loop body that forgets to check the camera off old_cameras.
ConfigureCameraNoCheckOff(acc, camera) ==
    IF camera.number \in Keys(acc.cams)
    THEN [cams |-> [acc.cams EXCEPT ![camera.number] = Refresh(@, camera)],
          old |-> acc.old,
          notes |-> IF Changed(acc.cams[camera.number], camera)
                    THEN Append(acc.notes, Callout("status", camera.number, ""))
                    ELSE acc.notes]
    ELSE [cams |-> [acc.cams EXCEPT ![camera.number] = camera],
          old |-> acc.old,
          notes |-> Append(acc.notes, Callout("added", camera.number, ""))]

\* One turn of the loop over <cameralist>: acc is [cams, old, notes], old
\* the keys of the check-off copy old_cameras.  A snapshot lists a camera
\* number once (del old_cameras[n] raises KeyError on the second).
ConfigureCamera(acc, camera) ==
    IF camera.number \in Keys(acc.cams)
    THEN [cams |-> [acc.cams EXCEPT ![camera.number] = Refresh(@, camera)],
          old |-> acc.old \ {camera.number},
          notes |-> IF Changed(acc.cams[camera.number], camera)
                    THEN Append(acc.notes, Callout("status", camera.number, ""))
                    ELSE acc.notes]
    ELSE [cams |-> [acc.cams EXCEPT ![camera.number] = camera],
          old |-> acc.old,
          notes |-> Append(acc.notes, Callout("added", camera.number, ""))]

RECURSIVE ConfigureCameras(_, _)
ConfigureCameras(acc, cameralist) ==
    IF cameralist = <<>> THEN acc
    ELSE ConfigureCameras(ConfigureCamera(acc, Head(cameralist)), Tail(cameralist))

\* The loop over old_cameras: the cameras that disappeared.  The code
\* walks the dict in insertion order; the model walks it by number.
RECURSIVE RemoveCameras(_)
RemoveCameras(acc) ==
    IF acc.old = {} THEN acc
    ELSE LET cnum == CHOOSE n \in acc.old : \A m \in acc.old : n <= m
         IN  RemoveCameras(
                [cams |-> [acc.cams EXCEPT ![cnum] = NoCam],
                 old |-> acc.old \ {cnum},
                 notes |-> Append(acc.notes, Callout("removed", cnum, ""))])

\* A _configure that installs the tap without looking at self._events.
AlwaysInstall(S) == TRUE

\* "if not self._events": whether _configure installs the event tap.
NotLiveConnected(S) == S.events = 0

\* A ++systemInfo body: unparsable, or a snapshot with its <cameralist>.
Malformed == [ok |-> FALSE, cameralist |-> <<>>]
Snapshot(cameralist) == [ok |-> TRUE, cameralist |-> cameralist]

\* A _configure that reports 'ready' before it drops the vanished cameras.
ConfigureReadyEarly(S, system_info, resolved) ==
    IF ~system_info.ok THEN Note(S, "ERROR", 0, "parse")
    ELSE LET S1 == IF NotLiveConnected(S)
                   THEN FetchList(FetchList(EventStream(S, resolved[1]),
                                            "scripts", resolved[2]),
                                  "sounds", resolved[3])
                   ELSE S
             mid == ConfigureCameras(
                        [cams |-> S1.cameras, old |-> Keys(S1.cameras),
                         notes |-> S1.notes],
                        system_info.cameralist)
             acc == RemoveCameras(
                        [mid EXCEPT !.notes = Append(@,
                            [Callout("ready", 0, "") EXCEPT !.cams = mid.cams])])
         IN  [S1 EXCEPT !.cameras = acc.cams, !.notes = acc.notes]

\* A _configure that brings up the tap and the lists before it parses.
ConfigureTapBeforeParse(S, system_info, resolved) ==
    LET S1 == IF NotLiveConnected(S)
              THEN FetchList(FetchList(EventStream(S, resolved[1]),
                                       "scripts", resolved[2]),
                             "sounds", resolved[3])
              ELSE S
        acc == RemoveCameras(ConfigureCameras(
                   [cams |-> S1.cameras, old |-> Keys(S1.cameras),
                    notes |-> S1.notes],
                   system_info.cameralist))
    IN  IF ~system_info.ok THEN Note(S1, "ERROR", 0, "parse")
        ELSE [S1 EXCEPT !.cameras = acc.cams,
                        !.notes = Append(acc.notes,
                            [Callout("ready", 0, "") EXCEPT !.cams = acc.cams])]

\* SecuritySpy._configure.  resolved: whether address resolution succeeds
\* for the tap, the scripts list and the sounds list request.
Configure(S, system_info, resolved) ==
    IF ~system_info.ok THEN Note(S, "ERROR", 0, "parse")
    ELSE LET S1 == IF NotLiveConnected(S)
                   THEN FetchList(FetchList(EventStream(S, resolved[1]),
                                            "scripts", resolved[2]),
                                  "sounds", resolved[3])
                   ELSE S
             acc == RemoveCameras(ConfigureCameras(
                        [cams |-> S1.cameras, old |-> Keys(S1.cameras),
                         notes |-> S1.notes],
                        system_info.cameralist))
         IN  [S1 EXCEPT !.cameras = acc.cams,
                        !.notes = Append(acc.notes,
                            [Callout("ready", 0, "") EXCEPT !.cams = acc.cams])]

(***************************************************************************)
(* The event tap (SecuritySpy._event_stream.reply, Camera._event_tap).     *)
(* A record is [state, cnum, arg]: the label of the rule of                *)
(* _SCAN_EVENT_TAP that matched, the camera number (0: none) and the       *)
(* argument group.                                                         *)
(***************************************************************************)
ARM_REPORTS(code) ==
    CASE code = "M" -> ARM_MOTION
      [] code = "C" -> ARM_CONTINUOUS
      [] code = "A" -> ARM_ACTIONS

Record(state, cnum, arg) == [state |-> state, cnum |-> cnum, arg |-> arg]

\* int() of a string of decimal digits, given as a sequence of characters.
DigitValue(d) ==
    CASE d = "0" -> 0 [] d = "1" -> 1 [] d = "2" -> 2 [] d = "3" -> 3
      [] d = "4" -> 4 [] d = "5" -> 5 [] d = "6" -> 6 [] d = "7" -> 7
      [] d = "8" -> 8 [] d = "9" -> 9
RECURSIVE ParseInt(_)
ParseInt(ds) ==
    IF ds = <<>> THEN 0
    ELSE 10 * ParseInt(SubSeq(ds, 1, Len(ds) - 1)) + DigitValue(ds[Len(ds)])

\* MOTION_CODES: the reason each bit of a trigger's mask stands for.
MOTION_CODES ==
    [code \in {1, 2, 4, 8, 16, 32, 64, 128, 256} |->
        CASE code = 1 -> "motion" [] code = 2 -> "audio"
          [] code = 4 -> "applescript" [] code = 8 -> "camera"
          [] code = 16 -> "web" [] code = 32 -> "crosscamera"
          [] code = 64 -> "manual" [] code = 128 -> "human"
          [] code = 256 -> "vehicle"]

\* code & codes for a code that is a power of two: whether the bit is set.
BitAnd(code, codes) == IF (codes \div code) % 2 = 1 THEN code ELSE 0

\* A motions() that has no default for a mask without a known bit.
MotionsNoDefault(codes) ==
    { MOTION_CODES[code] : code \in {c \in DOMAIN MOTION_CODES : BitAnd(c, codes) # 0} }

\* motions(codes): the reasons whose bit is set, by default "motion".
Motions(codes) ==
    LET named == { MOTION_CODES[code] :
                     code \in {c \in DOMAIN MOTION_CODES : BitAnd(c, codes) # 0} }
    IN  IF named = {} THEN {"motion"} ELSE named

\* TRIGGER_TYPES: the mode letter of a TRIGGER record.
TRIGGER_TYPES(type) ==
    CASE type = <<"M">> -> "recording"
      [] type = <<"A">> -> "action"

\* Camera._event_tap on camera rec.cnum of the map.
CameraEventTap(S, rec, resolved) ==
    LET n == rec.cnum
        armed == S.cameras[n].armed
        S1 == CASE rec.state = "active" ->
                     [S EXCEPT !.cameras[n].armed = armed \cup {ARM_MOTION}]
                [] rec.state = "passive" ->
                     [S EXCEPT !.cameras[n].armed = armed \ {ARM_MOTION}]
                [] rec.state = "arm" ->
                     [S EXCEPT !.cameras[n].armed = armed \cup {ARM_REPORTS(rec.arg)}]
                [] rec.state = "disarm" ->
                     [S EXCEPT !.cameras[n].armed = armed \ {ARM_REPORTS(rec.arg)}]
                [] rec.state = "online" ->
                     [S EXCEPT !.cameras[n].connected = TRUE]
                [] rec.state = "offline" ->
                     [Update(S, resolved) EXCEPT !.cameras[n].connected = FALSE]
                [] OTHER -> S
    IN  IF rec.state = "trigger"
        THEN Note(S, "trigger", n,
                  <<TRIGGER_TYPES(rec.arg[1]), Motions(ParseInt(rec.arg[2]))>>)
        ELSE Note(S1, rec.state, n, rec.arg)

\* A reply() without the branch for 'change': the record goes the way of
\* the camera records.
TapReplyRecordRoutesChange(S, rec, resolved) ==
    IF rec.state = "unknown" THEN Note(S, "ERROR", 0, "unknown event tap")
    ELSE IF rec.cnum \notin Keys(S.cameras) THEN Update(S, resolved)
    ELSE CameraEventTap(S, rec, resolved)

\* A reply() that drops the record of a camera it does not know.
TapReplyRecordSkipsUnknownCamera(S, rec, resolved) ==
    IF rec.state = "unknown" THEN Note(S, "ERROR", 0, "unknown event tap")
    ELSE IF rec.state = "change" THEN Update(S, resolved)
    ELSE IF rec.cnum \notin Keys(S.cameras) THEN S
    ELSE CameraEventTap(S, rec, resolved)

\* A reply() that treats a line no rule knows as it treats an error
\* context: it closes the tap.
TapReplyRecordClosesOnUnknown(S, rec, resolved) ==
    IF rec.state = "unknown" THEN TapReplyError(S, "unknown event tap")
    ELSE IF rec.state = "change" THEN Update(S, resolved)
    ELSE IF rec.cnum \notin Keys(S.cameras) THEN Update(S, resolved)
    ELSE CameraEventTap(S, rec, resolved)

\* reply(), the branch for ctx.scan == _SCAN_EVENT_TAP.
TapReplyRecord(S, rec, resolved) ==
    IF rec.state = "unknown" THEN Note(S, "ERROR", 0, "unknown event tap")
    ELSE IF rec.state = "change" THEN Update(S, resolved)
    ELSE IF rec.cnum \notin Keys(S.cameras) THEN Update(S, resolved)
    ELSE CameraEventTap(S, rec, resolved)

\* A reply() that installs the grammar whatever the status is.
TapReplyHeadersAnyStatus(S, r) ==
    [Note(S, "event tap", 0, S.reqs[r].status) EXCEPT !.reqs[r].scan = "tap"]

\* reply(), the branch for ctx.state == 'headers' of request r.
TapReplyHeaders(S, r) ==
    LET S1 == Note(S, "event tap", 0, S.reqs[r].status)
    IN  IF S.reqs[r].status = "200"
        THEN [S1 EXCEPT !.reqs[r].scan = "tap"]
        ELSE Note(CloseEvents(S1), "ERROR", 0, StatusError(S.reqs[r].status))

\* A reply() that closes the tap at the end of its body and leaves it at that.
TapReplyBodyNoRestart(S, resolved) == CloseEvents(S)

\* reply(), the branch for ctx.state == 'body': restart the tap.
TapReplyBody(S, resolved) == EventStream(CloseEvents(S), resolved)

\* An update.reply that parses the body whatever the status is.
UpdateReplyBodyAnyStatus(S, r, system_info, resolved) ==
    Configure(S, system_info, resolved)

\* SecuritySpy.update.reply, the branch for ctx.state == 'body'.
UpdateReplyBody(S, r, system_info, resolved) ==
    IF S.reqs[r].status = "200"
    THEN Configure(S, system_info, resolved)
    ELSE Note(S, "ERROR", 0, StatusError(S.reqs[r].status))

\* SecuritySpy._fetch_list.reply, the branch for ctx.state == 'body': the
\* list is stored in self._lists (its content is not modelled) and
\* 'list available' is called out with its name.
FetchListReplyBody(S, r) == Note(S, "list available", 0, S.reqs[r].name)

\* The callout of request r with an error context, by whose reply() it is.
ReplyError(S, r, what) ==
    CASE S.reqs[r].kind = "info" -> UpdateReplyError(S, what)
      [] S.reqs[r].kind = "tap" -> TapReplyError(S, what)
      [] OTHER -> S

(***************************************************************************)
(* The inputs: the snapshots a server may send and the records of its tap. *)
(***************************************************************************)
Base(n) == Camera(n, "cam", <<640, 480>>, TRUE, {ARM_MOTION}, 50, "dev")

\* Base(n) with one field changed; camera 1 may also come with another
\* device.
Variants(n) ==
    { [Base(n) EXCEPT !.name = "renamed"],
      [Base(n) EXCEPT !.size = <<1280, 720>>],
      [Base(n) EXCEPT !.connected = FALSE],
      [Base(n) EXCEPT !.armed = {ARM_MOTION, ARM_ACTIONS}],
      [Base(n) EXCEPT !.sensitivity = 60] }
    \cup IF n = 1 THEN { [Base(n) EXCEPT !.device = "replaced"] } ELSE {}

\* The lists of distinct camera numbers, in every order.
NumberLists ==
    { nl \in UNION { [1..k -> CamNums] : k \in 0..MaxCam } :
        \A i, j \in DOMAIN nl : i # j => nl[i] # nl[j] }

\* Every camera as Base.
BaseList(nl) == [j \in DOMAIN nl |-> Base(nl[j])]

BaseSnapshots == { Snapshot(BaseList(nl)) : nl \in NumberLists }

\* The snapshots of the session specification: no camera, or camera 1.
SessionSnapshots == {Snapshot(<<>>), Snapshot(<<Base(1)>>)}

\* The snapshots of the reconciliation specification: at most one listed
\* camera deviates from Base, in one field.
VariantSnapshots ==
    BaseSnapshots \cup
    { Snapshot([BaseList(nl) EXCEPT ![i] = v]) :
        <<nl, i, v>> \in
            { t \in NumberLists \X (1..MaxCam) \X UNION { Variants(n) : n \in CamNums } :
                t[2] \in DOMAIN t[1] /\ t[3].number = t[1][t[2]] } }

\* The records of the session specification: a line no rule knows, a
\* configuration change without and with a camera prefix, and two records
\* of camera 1.
SessionRecords ==
    { Record("unknown", 0, ""), Record("change", 0, ""), Record("change", 1, ""),
      Record("motion", 1, ""), Record("offline", 1, "") }
\* The records of the reconciliation specification: those that change a
\* field of camera 1.
ReconRecords == { Record("online", 1, ""), Record("disarm", 1, "M") }

NoSnap == <<NoCam>>
Resolutions == BOOLEAN \X BOOLEAN \X BOOLEAN

(***************************************************************************)
(* Part II.  Reply bytes.  A byte string is a sequence of one-character    *)
(* strings.  The rules are those of Request._scan_headers and of           *)
(* SecuritySpy._SCAN_EVENT_TAP, matched as re.match matches them: anchored *)
(* at the start of the buffer, greedy, backtracking where a shorter        *)
(* repetition can still succeed.                                           *)
(***************************************************************************)
CR == "\r"
LF == "\n"
CRLF == <<CR, LF>>
\* None, where a byte string is expected (body_reply, a group that took no
\* part in the match).
None == <<"None">>

Digits == {"0", "1", "2", "3", "4", "5", "6", "7", "8", "9"}
UpperSeq == <<"A", "B", "C", "D", "E", "F", "G", "H", "I", "J", "K", "L", "M", "N", "O", "P", "Q", "R", "S", "T", "U", "V", "W", "X", "Y", "Z">>
LowerSeq == <<"a", "b", "c", "d", "e", "f", "g", "h", "i", "j", "k", "l", "m", "n", "o", "p", "q", "r", "s", "t", "u", "v", "w", "x", "y", "z">>
UpperCase == {UpperSeq[i] : i \in DOMAIN UpperSeq}
LowerCase == {LowerSeq[i] : i \in DOMAIN LowerSeq}

\* The character classes of the rules.
InClass(cls, c) ==
    CASE cls = "\\d" -> c \in Digits                                        \* also [0-9]
      [] cls = "\\s" -> c \in {" ", "\t", CR, LF}
      [] cls = "\\w" -> c \in Digits \cup UpperCase \cup LowerCase \cup {"_"}
      [] cls = "[^\\r]" -> c # CR
      [] cls = "[^:]" -> c # ":"
      [] cls = "[^ ]" -> c # " "

\* Where the longest run of characters of a class that starts at i ends:
\* the first position from i on that is past the buffer or not in the class.
RunEnd(b, i, cls) ==
    CHOOSE j \in i..(Len(b) + 1) :
        /\ \A k \in i..(j - 1) : InClass(cls, b[k])
        /\ j = Len(b) + 1 \/ ~InClass(cls, b[j])

\* The literal w stands in b at position i.
Lit(b, i, w) ==
    /\ i + Len(w) - 1 <= Len(b)
    /\ \A k \in 1..Len(w) : b[i + k - 1] = w[k]

\* b[i..j-1]
Sub(b, i, j) == SubSeq(b, i, j - 1)

\* The element of a one-element set.  The({e(x) : x \in {v}}) is e(v) with
\* v evaluated once, however often e uses it.
The(S) == CHOOSE x \in S : TRUE

\* The result of matching one rule: the length matched (0: no match) and
\* the groups.
NoMatch == [len |-> 0, groups |-> <<>>]
Match(len, groups) == [len |-> len, groups |-> groups]

\* r'HTTP/(1.[01]) (\d+) ([^\r]*)\r\n'
StatusRule(b) ==
    IF /\ Lit(b, 1, <<"H", "T", "T", "P", "/">>)
       /\ Len(b) >= 9
       /\ b[6] = "1" /\ b[7] # LF /\ b[8] \in {"0", "1"} /\ b[9] = " "
    THEN The({ IF d > 10 /\ d <= Len(b) /\ b[d] = " "
               THEN The({ IF Lit(b, v, CRLF)
                          THEN Match(v + 1, <<Sub(b, 6, 9), Sub(b, 10, d), Sub(b, d + 1, v)>>)
                          ELSE NoMatch
                          : v \in {RunEnd(b, d + 1, "[^\\r]")} })
               ELSE NoMatch
               : d \in {RunEnd(b, 10, "\\d")} })
    ELSE NoMatch

\* Where the value of a header line ends if it starts at s: at the first
\* CR from s on, if an LF follows it (0: nowhere).
ValueEnd(b, s) ==
    The({ IF Lit(b, e, CRLF) THEN e ELSE 0 : e \in {RunEnd(b, s, "[^\\r]")} })

\* r'([^:]+):\s+([^\r]*)\r\n'.  [^:]+ and \s+ take line ends as well.  \s+
\* is tried longest first: the value starts at the last position s of the
\* white space after the colon from which [^\r]*\r\n matches.
HeaderRule(b) ==
    The({ IF k > 1 /\ k <= Len(b)
          THEN The({ IF starts # {}
                     THEN The({ Match(ValueEnd(b, s) + 1,
                                      <<Sub(b, 1, k), Sub(b, s, ValueEnd(b, s))>>)
                                : s \in {CHOOSE x \in starts : \A y \in starts : y <= x} })
                     ELSE NoMatch
                     : starts \in {{s \in (k + 2)..RunEnd(b, k + 1, "\\s") :
                                        ValueEnd(b, s) # 0}} })
          ELSE NoMatch
          : k \in {RunEnd(b, 1, "[^:]")} })

\* r'\r\n'
EndHeadersRule(b) == IF Lit(b, 1, CRLF) THEN Match(2, <<>>) ELSE NoMatch

\* Request._scan_headers: the rules in list order.
ScanHeaders(b) ==
    << [label |-> "status", m |-> StatusRule(b)],
       [label |-> "header", m |-> HeaderRule(b)],
       [label |-> "end-headers", m |-> EndHeadersRule(b)] >>

\* The result of matching the start of a record: where the text after it
\* starts (0: no match) and the groups.
NoPrefix == [next |-> 0, groups |-> <<>>]

\* r'(\d+) (\d+) '
TsSeq(b) ==
    The({ IF a > 1 /\ a <= Len(b) /\ b[a] = " "
          THEN The({ IF c > a + 1 /\ c <= Len(b) /\ b[c] = " "
                     THEN [next |-> c + 1, groups |-> <<Sub(b, 1, a), Sub(b, a + 1, c)>>]
                     ELSE NoPrefix
                     : c \in {RunEnd(b, a + 1, "\\d")} })
          ELSE NoPrefix
          : a \in {RunEnd(b, 1, "\\d")} })

\* r'(?:CAM)?(\d+) ' after the prefix p
CamAfter(b, p) ==
    IF p.next = 0 THEN p
    ELSE The({ The({ IF n > m /\ n <= Len(b) /\ b[n] = " "
                     THEN [next |-> n + 1, groups |-> Append(p.groups, Sub(b, m, n))]
                     ELSE NoPrefix
                     : n \in {RunEnd(b, m, "\\d")} })
               : m \in {IF Lit(b, p.next, <<"C", "A", "M">>) THEN p.next + 3 ELSE p.next} })

\* r'(\d+) (\d+) (?:CAM)?(\d+) '
CamPrefix(b) == The({ CamAfter(b, p) : p \in {TsSeq(b)} })

\* r'WORD\r' after the prefix p
CamWordRule(b, p, word) ==
    IF p.next # 0 /\ Lit(b, p.next, Append(word, CR))
    THEN Match(p.next + Len(word), p.groups)
    ELSE NoMatch

\* r'WORD(class+)\r' and, with orEmpty, r'WORD(class*)\r' after the prefix p
CamArgRule(b, p, word, cls, orEmpty) ==
    IF p.next # 0 /\ Lit(b, p.next, word)
    THEN The({ IF (orEmpty \/ e > p.next + Len(word)) /\ e <= Len(b) /\ b[e] = CR
               THEN Match(e, Append(p.groups, Sub(b, p.next + Len(word), e)))
               ELSE NoMatch
               : e \in {RunEnd(b, p.next + Len(word), cls)} })
    ELSE NoMatch

\* r'TRIGGER_([MA]) ([0-9]+)\r' after the prefix p
TriggerRule(b, p) ==
    IF p.next # 0 /\ Lit(b, p.next, <<"T", "R", "I", "G", "G", "E", "R", "_">>)
    THEN The({ IF s + 1 <= Len(b) /\ b[s] \in {"M", "A"} /\ b[s + 1] = " "
               THEN The({ IF e > s + 2 /\ e <= Len(b) /\ b[e] = CR
                          THEN Match(e, p.groups \o <<Sub(b, s, s + 1), Sub(b, s + 2, e)>>)
                          ELSE NoMatch
                          : e \in {RunEnd(b, s + 2, "\\d")} })
               ELSE NoMatch
               : s \in {p.next + 8} })
    ELSE NoMatch

\* r'(\d+) (\d+) ([^ ]+ )?CONFIGCHANGE\r', p the match of r'(\d+) (\d+) '.
\* [^ ]+ takes line ends as well.  The optional group is tried first.
ChangeRule(b, p) ==
    IF p.next = 0 THEN NoMatch
    ELSE The({ IF g > p.next /\ g <= Len(b) /\ Lit(b, g + 1, word)
               THEN Match(g + Len(word), Append(p.groups, Sub(b, p.next, g + 1)))
               ELSE IF Lit(b, p.next, word)
               THEN Match(p.next + Len(word) - 1, Append(p.groups, None))
               ELSE NoMatch
               : g \in {RunEnd(b, p.next, "[^ ]")},
                 word \in {<<"C", "O", "N", "F", "I", "G", "C", "H", "A", "N", "G", "E", CR>>} })

\* r'([^\r]*)\r'
UnknownRule(b) ==
    The({ IF e <= Len(b) THEN Match(e, <<Sub(b, 1, e)>>) ELSE NoMatch
          : e \in {RunEnd(b, 1, "[^\\r]")} })

\* SecuritySpy._SCAN_EVENT_TAP: the rules in list order.  The start that
\* the rules share is matched once: ts for r'(\d+) (\d+) ', p for the
\* camera number after it.
TapRules(b, ts, p) ==
    << [label |-> "motion", m |-> CamWordRule(b, p, <<"M", "O", "T", "I", "O", "N">>)],
       [label |-> "trigger", m |-> TriggerRule(b, p)],
       [label |-> "classify",
        m |-> CamArgRule(b, p, <<"C", "L", "A", "S", "S", "I", "F", "Y", " ">>, "[^\\r]", TRUE)],
       [label |-> "online", m |-> CamWordRule(b, p, <<"O", "N", "L", "I", "N", "E">>)],
       [label |-> "offline", m |-> CamWordRule(b, p, <<"O", "F", "F", "L", "I", "N", "E">>)],
       [label |-> "change", m |-> ChangeRule(b, ts)],
       [label |-> "error",
        m |-> CamArgRule(b, p, <<"E", "R", "R", "O", "R", " ">>, "[^\\r]", TRUE)],
       [label |-> "active", m |-> CamWordRule(b, p, <<"A", "C", "T", "I", "V", "E">>)],
       [label |-> "passive", m |-> CamWordRule(b, p, <<"P", "A", "S", "S", "I", "V", "E">>)],
       [label |-> "arm", m |-> CamArgRule(b, p, <<"A", "R", "M", "_">>, "\\w", FALSE)],
       [label |-> "disarm",
        m |-> CamArgRule(b, p, <<"D", "I", "S", "A", "R", "M", "_">>, "\\w", FALSE)],
       [label |-> "unknown", m |-> UnknownRule(b)] >>
ScanEventTap(b) ==
    The({ The({ TapRules(b, ts, p) : p \in {CamAfter(b, ts)} }) : ts \in {TsSeq(b)} })

(***************************************************************************)
(* One Request at the level of bytes.  R is the Request as a record:       *)
(*   st          "connecting", "open", "failed" (no address or no          *)
(*               connection) or "closed" (close() was called)              *)
(*   owner       "fetch": the caller only collects the callouts;           *)
(*               "tap": the caller is _event_stream.reply, which installed *)
(*                      _SCAN_EVENT_TAP when it saw 'headers'              *)
(*   scan        the rule set on the connection: "headers", "tap", "none"  *)
(*   buf         the scanner's unconsumed bytes                            *)
(*   n_status, h_reply, body_reply   as in the code; h_reply is the dict   *)
(*               as the sequence of its <<key, value>> items               *)
(*   filters     the coders _prepare_body inserted; coded the bytes handed *)
(*               to them                                                   *)
(*   calls       the callouts made to the caller, in order                 *)
(*   scanned     the events the scanner emitted, in order                  *)
(***************************************************************************)
NewRequest(owner) ==
    [st |-> "connecting", owner |-> owner, scan |-> "none", buf |-> <<>>,
     n_status |-> None, h_reply |-> <<>>, body_reply |-> None,
     filters |-> <<>>, coded |-> <<>>, calls |-> <<>>, scanned |-> <<>>]

\* Callable.callout of the Request.
RequestCallout(R, t, arg) == [R EXCEPT !.calls = Append(@, [t |-> t, arg |-> arg])]

\* dict.__setitem__ on h_reply: a key that is there keeps its place and
\* takes the new value.
SetItem(h, key, value) ==
    IF \E i \in DOMAIN h : h[i][1] = key
    THEN [i \in DOMAIN h |-> IF h[i][1] = key THEN <<key, value>> ELSE h[i]]
    ELSE Append(h, <<key, value>>)

\* str.lower on the letters of the alphabet.
ToLower(c) ==
    IF c \in UpperCase
    THEN LowerSeq[CHOOSE i \in DOMAIN UpperSeq : UpperSeq[i] = c]
    ELSE c
LowerOf(s) == [i \in DOMAIN s |-> ToLower(s[i])]

\* HeaderDict._matches(pattern, value) for a value that is not None.
HeaderMatches(pattern, value) ==
    LET p == LowerOf(pattern)
        v == LowerOf(value)
    IN  p = v \/ Lit(p, 1, Append(v, ";"))

\* HeaderDict.match(key, spec) as _prepare_body calls it: key is already
\* what _key makes of it, and the dict is looked up with it as it is.
HeaderMatch(h, key, spec) ==
    \E i \in DOMAIN h : h[i][1] = key /\ HeaderMatches(h[i][2], spec)

\* FilterCallable.insert_filter(coder, uplink=self.incoming): the coder
\* goes immediately upstream of the sink, downstream of the coders that
\* are there.  filters lists the coders from the connection to the sink.
InsertFilter(filters, coder) == Append(filters, coder)

\* Request._prepare_body
PrepareBody(R) ==
    LET R1 == [R EXCEPT !.scan = "none", !.body_reply = <<>>]
        R2 == IF HeaderMatch(R.h_reply, <<"T", "r", "a", "n", "s", "f", "e", "r", "-", "E", "n", "c", "o", "d", "i", "n", "g">>, <<"c", "h", "u", "n", "k", "e", "d">>)
              THEN [R1 EXCEPT !.filters = InsertFilter(@, "ChunkedCoder")] ELSE R1
    IN  IF HeaderMatch(R.h_reply, <<"C", "o", "n", "t", "e", "n", "t", "-", "E", "n", "c", "o", "d", "i", "n", "g">>, <<"g", "z", "i", "p">>)
        THEN [R2 EXCEPT !.filters = InsertFilter(@, "GZipCoder")] ELSE R2

\* _event_stream.reply on 'headers', as far as the Request is concerned:
\* with status 200 the tap grammar becomes the rule set, with any other
\* status the Request is closed.
TapInstall(R) ==
    IF R.owner # "tap" THEN R
    ELSE IF R.n_status = <<"2", "0", "0">> THEN [R EXCEPT !.scan = "tap"]
    ELSE [R EXCEPT !.st = "closed"]

\* _event_stream.reply on an error, as far as the Request is concerned:
\* _close_events closes it.  update.reply only passes the error on.
TapCloseOnError(R) ==
    IF R.owner = "tap" THEN [R EXCEPT !.st = "closed"] ELSE R

\* Request.incoming on an error context: the callout, and nothing else;
\* the Request is not closed.
IncomingError(R, args) == TapCloseOnError(RequestCallout(R, "ERROR", args))

\* Request.incoming for the context states the scanner and the connection
\* deliver.  The last branch is FilterCallable.incoming, which passes the
\* event on to the caller.
Incoming(R0, state, args) ==
  The({
    CASE state = "ERROR" -> IncomingError(R, args)
      [] state = "END" ->
            LET R1 == [R EXCEPT !.st = "closed"]
            IN  IF R.body_reply = None
                THEN RequestCallout(R1, "END", <<>>)
                ELSE RequestCallout(R1, "body", R.body_reply)
      [] state = "status" ->
            RequestCallout([R EXCEPT !.n_status = args[2]], "status", args[2])
      [] state = "header" ->
            [R EXCEPT !.h_reply = SetItem(@, args[1], args[2])]
      [] state = "end-headers" ->
            LET R1 == PrepareBody(R)
            IN  TapInstall(RequestCallout(R1, "headers", R1.h_reply))
      [] state = "RAW" /\ R.scan = "none" ->
            [R EXCEPT !.body_reply = @ \o args[1]]
      [] OTHER -> RequestCallout(R, state, args)
    : R \in {R0} })

\* The rule that wins: the first in list order that matches.
FirstMatch(rules) ==
    IF \E i \in DOMAIN rules : rules[i].m.len > 0
    THEN rules[CHOOSE i \in DOMAIN rules :
                /\ rules[i].m.len > 0
                /\ \A j \in 1..(i - 1) : rules[j].m.len = 0]
    ELSE [label |-> "", m |-> NoMatch]

\* The rules of the rule set on buffer b.
Rules(scan, b) == IF scan = "tap" THEN ScanEventTap(b) ELSE ScanHeaders(b)

\* The scanner found hit on the buffer of R: consume, log, and deliver to
\* Request.incoming.
Emit(R, hit) ==
    Incoming([R EXCEPT !.buf = Sub(@, hit.m.len + 1, Len(@) + 1),
                       !.scanned = Append(@, [label |-> hit.label,
                                              groups |-> hit.m.groups])],
             hit.label, hit.m.groups)

\* With no rule set what is in the buffer goes on as one raw event: to the
\* coders if _prepare_body inserted any, else to Request.incoming.
EmitRaw(R) ==
    IF R.filters # <<>>
    THEN [R EXCEPT !.coded = @ \o R.buf, !.buf = <<>>]
    ELSE Incoming([R EXCEPT !.buf = <<>>,
                            !.scanned = Append(@, [label |-> "RAW", groups |-> <<R.buf>>])],
                  "RAW", <<R.buf>>)

\* The scanner on its buffer: match, consume, emit, and again, until no
\* rule matches.
RECURSIVE Drain(_)
Drain(R0) ==
    The({ IF R.buf = <<>> \/ R.st # "open" THEN R
          ELSE IF R.scan = "none" THEN EmitRaw(R)
          ELSE The({ IF hit.m.len = 0 THEN R ELSE Drain(Emit(R, hit))
                     : hit \in {The({ FirstMatch(rules) : rules \in {Rules(R.scan, R.buf)} })} })
          : R \in {R0} })

\* The scanner's feed: append to the unconsumed buffer and scan.
Feed(R, data) == Drain([R EXCEPT !.buf = @ \o data])

\* Request.open: with the address resolved the connector is started; a
\* resolution failure is called out and nothing is started.
OpenRequest(owner, resolved) ==
    IF resolved THEN NewRequest(owner)
    ELSE RequestCallout([NewRequest(owner) EXCEPT !.st = "failed"],
                        "ERROR", <<"getaddrinfo">>)

\* Request._connected and _sendRequest on a connection that was made: the
\* header rule set is installed and the request is written.
SendRequest(R) == [R EXCEPT !.st = "open", !.scan = "headers"]

(***************************************************************************)
(* The reply bytes a server may send.                                      *)
(***************************************************************************)
StatusLine == <<"H", "T", "T", "P", "/", "1", ".", "1", " ", "2", "0", "0", " ", "O", "K", CR, LF>>
HeaderLine == <<"A", ":", " ", "b", CR, LF>>
\* A header with nothing after the colon and the blank.
EmptyHeaderLine == <<"A", ":", " ", CR, LF>>

\* The same header name twice, with two values.
SecondHeaderLine == <<"A", ":", " ", "c", CR, LF>>
\* Headers that declare the framing of the body, as the code spells them
\* and in other letter cases.
ChunkedLine == <<"T", "r", "a", "n", "s", "f", "e", "r", "-", "E", "n", "c", "o", "d", "i", "n", "g", ":", " ", "c", "h", "u", "n", "k", "e", "d", CR, LF>>
ChunkedExtLine == <<"T", "r", "a", "n", "s", "f", "e", "r", "-", "E", "n", "c", "o", "d", "i", "n", "g", ":", " ", "C", "h", "u", "n", "k", "e", "d", ";", "q", CR, LF>>
LowerChunkedLine == <<"t", "r", "a", "n", "s", "f", "e", "r", "-", "e", "n", "c", "o", "d", "i", "n", "g", ":", " ", "c", "h", "u", "n", "k", "e", "d", CR, LF>>
GZipLine == <<"C", "o", "n", "t", "e", "n", "t", "-", "E", "n", "c", "o", "d", "i", "n", "g", ":", " ", "g", "z", "i", "p", CR, LF>>
UpperGZipLine == <<"C", "O", "N", "T", "E", "N", "T", "-", "E", "N", "C", "O", "D", "I", "N", "G", ":", " ", "G", "Z", "I", "P", CR, LF>>

\* What stands between the status line and the blank line: nothing, a
\* header, a header with an empty value, the status line once more.
HttpHeads == {<<>>, HeaderLine, EmptyHeaderLine, StatusLine}
\* Bodies: none, one byte, a line with a colon in it.
HttpBodies == {<<>>, <<"x">>, <<"k", ":", " ", "v", CR, LF>>}
\* Heads with a repeated header and with framing headers.
FramingHeads ==
    {HeaderLine \o SecondHeaderLine, ChunkedLine, ChunkedExtLine,
     LowerChunkedLine, GZipLine, UpperGZipLine,
     ChunkedLine \o GZipLine, GZipLine \o ChunkedLine}
\* Replies that do not begin with a status line: a header line first, the
\* blank line first.
HeadlessStreams == {HeaderLine \o CRLF \o <<"x">>, CRLF \o <<"x">>}
\* The replies: complete ones, one the peer cuts off inside the head, and
\* the ones above.
HttpStreams ==
    {StatusLine \o h \o CRLF \o body : h \in HttpHeads, body \in HttpBodies}
        \cup {StatusLine}
        \cup {StatusLine \o h \o CRLF \o <<"x">> : h \in FramingHeads}
        \cup HeadlessStreams

\* Lines of the event tap: two records, a configuration change, and two
\* lines that no record rule knows.
TapLines ==
    { <<"1", " ", "2", " ", "3", " ", "M", "O", "T", "I", "O", "N", CR>>,
      <<"1", " ", "2", " ", "C", "A", "M", "3", " ", "O", "F", "F", "L", "I", "N", "E", CR>>,
      <<"1", " ", "2", " ", "C", "O", "N", "F", "I", "G", "C", "H", "A", "N", "G", "E", CR>>,
      <<"1", " ", "2", " ", "X", CR>>,
      <<"Y", " ", "C", "O", "N", "F", "I", "G", "C", "H", "A", "N", "G", "E", CR>> }
TapStreams == {p \o q : p \in TapLines, q \in TapLines \cup {<<>>}}

\* The tap's Request where reply() has seen 'headers' with status 200 and
\* no record has arrived yet.
TapReading == Feed(SendRequest(NewRequest("tap")), StatusLine \o CRLF)

\* No Request is followed at the level of bytes.
HttpIdle == http = NewRequest("fetch") /\ wire = <<>> /\ stream = <<>>

(***************************************************************************)
(* The state machine of the session.  A Request is followed through the    *)
(* callouts its reply() acts on: update.reply on an error and on 'body',   *)
(* _fetch_list.reply on 'body', _event_stream.reply on an error, on        *)
(* 'headers', on a tap record and on 'body'.                               *)
(***************************************************************************)
\* A Request nobody can reach any more leaves its slot: one that was closed
\* and is not self._events, or an info or list request that failed.
Reclaim(S) ==
    [S EXCEPT !.reqs = [s \in Slots |->
        IF \/ S.reqs[s].st = "closed" /\ s # S.events
           \/ S.reqs[s].kind \in {"info", "list"} /\ S.reqs[s].st = "failed"
        THEN FreeReq ELSE S.reqs[s]]]

\* What is remembered of a handler: its name, the request it ran for, the
\* snapshot it reconciled, whether that is the one reconciled last, and
\* the camera number of the record it handled (0: none).
Op(op, r, snap) == [op |-> op, r |-> r, snap |-> snap,
                    again |-> snap # NoSnap /\ snap = synced, n |-> 0,
                    status |-> ""]

Commit(S, op, sync) ==
    LET T == Reclaim(S)
    IN  /\ reqs' = T.reqs
        /\ events' = T.events
        /\ cameras' = T.cameras
        /\ notes' = T.notes
        /\ last' = op
        /\ synced' = sync
        /\ UNCHANGED hvars
        /\ UNCHANGED mvars

\* There is room for k more Requests of a kind.
Room(kind, k) == Cardinality(FreeSlots(reqs, kind)) >= k
\* What _configure may start: the tap and the two list fetches.
RoomToConfigure == Room("tap", 1) /\ Room("list", 2)

\* SecuritySpy(control, host): the state an open() on a fresh object leaves.
Constructed == [reqs |-> [s \in Slots |-> FreeReq], events |-> 0,
                cameras |-> NoCameras, notes |-> <<>>]

SessionInit ==
    \E resolved \in BOOLEAN :
        LET T == Reclaim(Open(Constructed, resolved))
        IN  /\ reqs = T.reqs
            /\ events = T.events
            /\ cameras = T.cameras
            /\ notes = T.notes
            /\ last = [op |-> "open", r |-> 0, snap |-> NoSnap, again |-> FALSE,
                       n |-> 0, status |-> ""]
            /\ synced = NoSnap
            /\ HttpIdle
            /\ MotionIdle

\* The caller calls open() again.
SpyOpen(resolved) ==
    /\ Room("info", 1)
    /\ Commit(Open(Session, resolved), Op("open", 0, NoSnap), NoSnap)

\* The caller calls close().
SpyClose ==
    Commit(Close(Session), Op("close", 0, NoSnap), synced)

\* The caller calls update().
SpyUpdate(resolved) ==
    /\ Room("info", 1)
    /\ Commit(Update(Session, resolved), Op("update", 0, NoSnap), synced)

\* Request._connected: the connector of request r completes.
Connected(r, ok) ==
    /\ reqs[r].st = "connecting"
    /\ IF ok
       THEN Commit([Session EXCEPT !.reqs[r].st = "sent", !.reqs[r].scan = "headers"],
                   Op("connected", r, NoSnap), synced)
       ELSE Commit(ReplyError([Session EXCEPT !.reqs[r].st = "failed"], r, "connect"),
                   Op("connect failed", r, NoSnap), synced)

\* Request.incoming up to 'end-headers': the status line, the header lines
\* and the blank line; _prepare_body clears the rule set and 'headers' is
\* called out.
Headers(S, r, status) ==
    [S EXCEPT !.reqs[r].status = status, !.reqs[r].st = "body",
              !.reqs[r].scan = "none"]

\* The reply head of the event tap arrives.
TapHeaders(r, status) ==
    /\ reqs[r].kind = "tap" /\ reqs[r].st = "sent"
    /\ Commit(TapReplyHeaders(Headers(Session, r, status), r),
              [Op("headers", r, NoSnap) EXCEPT !.status = status], synced)

\* Request.incoming for a record the tap grammar matched.
TapRecord(r, rec, resolved) ==
    /\ reqs[r].kind = "tap" /\ reqs[r].st = "body" /\ reqs[r].scan = "tap"
    /\ Room("info", 1)
    /\ Commit(TapReplyRecord(Session, rec, resolved),
              [Op(rec.state, r, NoSnap) EXCEPT !.n = rec.cnum], NoSnap)

\* Request.incoming for 'END' before the blank line: close, and call out
\* the END context, which no reply() of the session acts on.
PeerCloseEarly(r) ==
    /\ reqs[r].st = "sent"
    /\ Commit(RequestClose(Session, r), Op("early end", r, NoSnap), synced)

\* The reply to ++systemInfo arrives and the peer closes: Request.incoming
\* for 'END' closes the request and calls out 'body'.
PeerCloseInfo(r, status, system_info, resolved) ==
    /\ reqs[r].kind = "info" /\ reqs[r].st = "sent"
    /\ RoomToConfigure
    /\ LET parsed == status = "200" /\ system_info.ok
       IN  Commit(UpdateReplyBody(RequestClose(Headers(Session, r, status), r),
                                  r, system_info, resolved),
                  [Op("info end", r, IF parsed THEN system_info.cameralist
                                                ELSE NoSnap)
                      EXCEPT !.status = status],
                  IF parsed THEN system_info.cameralist ELSE synced)

\* The reply to a list fetch arrives and the peer closes.
PeerCloseList(r, status) ==
    /\ reqs[r].kind = "list" /\ reqs[r].st = "sent"
    /\ Commit(FetchListReplyBody(RequestClose(Headers(Session, r, status), r), r),
              Op("list end", r, NoSnap), synced)

\* The peer closes the event tap after its reply head.
PeerCloseTap(r, resolved) ==
    /\ reqs[r].kind = "tap" /\ reqs[r].st = "body"
    /\ Room("tap", 1)
    /\ Commit(TapReplyBody(RequestClose(Session, r), resolved),
              Op("tap end", r, NoSnap), synced)

\* Request.incoming for an error context: an I/O error on the connection.
\* The Request calls it out and stays as it is.
IoError(r) ==
    /\ reqs[r].st \in {"sent", "body"}
    /\ Commit(ReplyError(Session, r, "io"), Op("io error", r, NoSnap), synced)

Statuses == {"200", "404"}

Next ==
    \/ \E resolved \in BOOLEAN : SpyOpen(resolved)
    \/ SpyClose
    \/ \E resolved \in BOOLEAN : SpyUpdate(resolved)
    \/ \E r \in Slots, ok \in BOOLEAN : Connected(r, ok)
    \/ \E r \in Slots, status \in Statuses : TapHeaders(r, status)
    \/ \E r \in Slots, rec \in SessionRecords, resolved \in BOOLEAN :
            TapRecord(r, rec, resolved)
    \/ \E r \in Slots : PeerCloseEarly(r)
    \/ \E r \in Slots, status \in Statuses,
          system_info \in SessionSnapshots \cup {Malformed},
          resolved \in Resolutions : PeerCloseInfo(r, status, system_info, resolved)
    \/ \E r \in Slots, status \in Statuses : PeerCloseList(r, status)
    \/ \E r \in Slots, resolved \in BOOLEAN : PeerCloseTap(r, resolved)
    \/ \E r \in Slots : IoError(r)

Spec == SessionInit /\ [][Next]_vars

\* The reconciliation specification.  It starts where the session is
\* established (the first snapshot, with no camera, was reconciled, the tap
\* is reading records and both lists have arrived) and follows a server
\* that answers one fetch at a time with a snapshot of VariantSnapshots and
\* sends the records of ReconRecords.
Established ==
    /\ reqs = [s \in Slots |->
                IF s = MaxInfo + 1
                THEN [kind |-> "tap", st |-> "body", status |-> "200",
                      scan |-> "tap", name |-> ""]
                ELSE FreeReq]
    /\ events = MaxInfo + 1
    /\ cameras = NoCameras
    /\ notes = <<Callout("list available", 0, "sounds")>>
    /\ last = [op |-> "list end", r |-> MaxInfo + MaxTap + 2, snap |-> NoSnap,
               again |-> FALSE, n |-> 0,
               status |-> ""]
    /\ synced = <<>>
    /\ HttpIdle
    /\ MotionIdle

ReconNext ==
    \/ Room("info", MaxInfo) /\ SpyUpdate(TRUE)
    \/ \E r \in Slots : Connected(r, TRUE)
    \/ \E r \in Slots, rec \in ReconRecords : TapRecord(r, rec, TRUE)
    \/ \E r \in Slots, system_info \in VariantSnapshots :
            PeerCloseInfo(r, "200", system_info, <<TRUE, TRUE, TRUE>>)

ReconSpec == Established /\ [][ReconNext]_vars

\* The specification of late continuations.  It starts where the
\* established session was closed by its caller: close() has closed the
\* tap Request, which had its reply head and its grammar.  The session is
\* brought up again by update(), and at any time a continuation for the
\* Request that close() closed may still be delivered: the end of its
\* stream, an error, a record.  Request.incoming and reply() handle it as
\* they handle any other; reply() works on self._events, whichever Request
\* it was called for.
Shut ==
    /\ reqs = Constructed.reqs
    /\ events = 0
    /\ cameras = NoCameras
    /\ notes = <<>>
    /\ last = [op |-> "close", r |-> 0, snap |-> NoSnap, again |-> FALSE, n |-> 0,
               status |-> ""]
    /\ synced = <<>>
    /\ HttpIdle
    /\ MotionIdle

\* Request.incoming for 'END' on the closed tap Request: 'body' is called
\* out to its reply().
StaleTapEnd(resolved) ==
    /\ Room("tap", 1)
    /\ Commit(TapReplyBody(Session, resolved), Op("stale end", 0, NoSnap), synced)

\* Request.incoming for an error context on the closed tap Request.
StaleTapError ==
    Commit(TapReplyError(Session, "io"), Op("stale error", 0, NoSnap), synced)

\* Request.incoming for a record the grammar of the closed tap Request
\* matched.
StaleTapRecord(rec, resolved) ==
    /\ Room("info", 1)
    /\ Commit(TapReplyRecord(Session, rec, resolved),
              [Op("stale record", 0, NoSnap) EXCEPT !.n = rec.cnum], NoSnap)

StaleNext ==
    \/ Room("info", MaxInfo) /\ SpyUpdate(TRUE)
    \/ \E r \in Slots : Connected(r, TRUE)
    \/ \E r \in Slots : TapHeaders(r, "200")
    \/ \E r \in Slots, system_info \in SessionSnapshots :
            PeerCloseInfo(r, "200", system_info, <<TRUE, TRUE, TRUE>>)
    \/ \E r \in Slots : PeerCloseList(r, "200")
    \/ StaleTapEnd(TRUE)
    \/ StaleTapError
    \/ \E rec \in SessionRecords : StaleTapRecord(rec, TRUE)

StaleSpec == Shut /\ [][StaleNext]_vars

\* The specification of TRIGGER records.  The session is established and
\* tracks camera 1; the tap Request has its reply head and reads one
\* TRIGGER line for camera 1, with either mode letter and a mask of up to
\* MaxMaskDigits decimal digits.  The line is scanned by the tap grammar
\* and the record is dispatched by reply() to Camera._event_tap.
MaxMaskDigits == 3
MaskDigits == UNION { [1..k -> Digits] : k \in 1..MaxMaskDigits }
TriggerHead == <<"1", " ", "2", " ", "C", "A", "M", "1", " ", "T", "R", "I", "G", "G", "E", "R", "_">>
TriggerLine(mode, ds) == TriggerHead \o <<mode, " ">> \o ds \o <<CR>>
TriggerLines == { TriggerLine(mode, ds) : mode \in {"M", "A"}, ds \in MaskDigits }

TriggerInit ==
    /\ reqs = [s \in Slots |->
                IF s = MaxInfo + 1
                THEN [kind |-> "tap", st |-> "body", status |-> "200",
                      scan |-> "tap", name |-> ""]
                ELSE FreeReq]
    /\ events = MaxInfo + 1
    /\ cameras = [NoCameras EXCEPT ![1] = Base(1)]
    /\ notes = <<>>
    /\ last = [op |-> "none", r |-> 0, snap |-> NoSnap, again |-> FALSE, n |-> 0,
               status |-> ""]
    /\ synced = <<Base(1)>>
    /\ http = TapReading
    /\ stream \in TriggerLines
    /\ wire = stream
    /\ MotionIdle

\* The line arrives: the scanner matches it, Request.incoming passes the
\* event on to reply(), which reads the camera number and dispatches.
TapTrigger ==
    /\ http.st = "open" /\ wire # <<>>
    /\ \E R \in {Feed(http, wire)} :
        \E call \in {R.calls[Len(R.calls)]} :
        \E rec \in {Record(call.t, ParseInt(call.arg[3]), <<call.arg[4], call.arg[5]>>)} :
        \E S \in {Reclaim(TapReplyRecord(Session, rec, TRUE))} :
            /\ call.t = "trigger"
            /\ http' = R
            /\ wire' = <<>>
            /\ reqs' = S.reqs
            /\ events' = S.events
            /\ cameras' = S.cameras
            /\ notes' = S.notes
            /\ last' = [Op(rec.state, events, NoSnap) EXCEPT !.n = rec.cnum]
            /\ UNCHANGED <<synced, stream>>
            /\ UNCHANGED mvars

TriggerNext == TapTrigger

TriggerSpec == TriggerInit /\ [][TriggerNext]_vars

(***************************************************************************)
(* Properties of the session.                                              *)
(***************************************************************************)
IsOpenTap(rq, s) == rq[s].kind = "tap" /\ rq[s].st # "closed"
WasFree(s) == reqs[s].kind = "free"
\* Request s was closed by the step (a closed request that is not
\* self._events has left its slot).
NowClosed(s) == reqs'[s].kind = "free" \/ reqs'[s].st = "closed"
\* The step created a Request for the tap and made it self._events: it is
\* connecting, unless its address resolution failed on the spot.
TapStarted ==
    /\ events' # 0
    /\ WasFree(events')
    /\ reqs'[events'].kind = "tap"
    /\ reqs'[events'].st \in {"connecting", "failed"}
NothingStarted == \A s \in Slots : WasFree(s) => reqs'[s].kind = "free"
CountNotes(ns, t, n) == Cardinality({i \in DOMAIN ns : ns[i].t = t /\ ns[i].n = n})
HasNote(ns, t, n) == \E i \in DOMAIN ns : ns[i].t = t /\ ns[i].n = n
Numbers(cameralist) == {cameralist[i].number : i \in DOMAIN cameralist}
Reconciled == last.op = "info end" /\ last.snap # NoSnap

\* C1: when the peer closes the event tap after its reply head (the step
\* "tap end"), that tap request is closed and, in the same step, a new
\* tap request is created and becomes self._events.
C1_RestartOnPeerClose ==
    [][last'.op = "tap end" =>
        /\ reqs[last'.r].kind = "tap" /\ reqs[last'.r].st = "body"
        /\ NowClosed(last'.r)
        /\ events' # last'.r
        /\ TapStarted]_svars

\* C1 witness: the tap was restarted and the new request is connecting.
C1_Witness ==
    /\ last.op = "tap end"
    /\ events # 0 /\ events # last.r
    /\ reqs[events].kind = "tap" /\ reqs[events].st = "connecting"

C3_AtMostOneTap ==
    Cardinality({s \in Slots : IsOpenTap(reqs, s)}) <= 1

\* C3 witness: a snapshot was reconciled while the tap was reading records,
\* and the tap is still the only one.
C3_Witness ==
    /\ Reconciled
    /\ events # 0 /\ reqs[events].st = "body"
    /\ \A i \in DOMAIN notes : notes[i].t # "ERROR"
    /\ Cardinality({s \in Slots : IsOpenTap(reqs, s)}) = 1
    /\ \A s \in ListSlots : reqs[s].kind = "free"

\* C4: a reconciliation leaves the camera map with exactly the numbers the
\* snapshot lists; a number only in the snapshot is called out 'added'
\* once, a number only in the live map 'removed' once, and no other number
\* is called out added or removed.
C4_KeysAreSnapshot ==
    [][Reconciled' =>
        LET nums == Numbers(last'.snap)
        IN  /\ Keys(cameras') = nums
            /\ \A n \in CamNums :
                /\ CountNotes(notes', "added", n) =
                        IF n \in nums \ Keys(cameras) THEN 1 ELSE 0
                /\ CountNotes(notes', "removed", n) =
                        IF n \in Keys(cameras) \ nums THEN 1 ELSE 0]_svars

\* C4 witness: live {1,2} met the snapshot <<3, 2>>: 1 removed, 3 added.
C4_Witness ==
    /\ Reconciled
    /\ last.snap = <<Base(3), Base(2)>>
    /\ Keys(cameras) = {2, 3}
    /\ HasNote(notes, "removed", 1) /\ HasNote(notes, "added", 3)

\* C5: reconciling the snapshot that was reconciled last, with no tap
\* record in between, calls out no added, removed or status and leaves the
\* camera map as it is.
C5_Idempotent ==
    [][Reconciled' /\ last'.again =>
        /\ cameras' = cameras
        /\ \A i \in DOMAIN notes' :
                notes'[i].t \notin {"added", "removed", "status"}]_svars

\* C5 witness: a snapshot with a camera in it was reconciled a second time.
C5_Witness ==
    /\ Reconciled /\ last.again
    /\ last.snap # <<>>
    /\ \E i \in DOMAIN last.snap : last.snap[i] # Base(last.snap[i].number)

\* C6: for a camera in the live map and in the snapshot, 'status' is called
\* out (once) exactly if the armed set, the connectivity flag or the
\* sensitivity of the two differ.
C6_StatusIffTracked ==
    [][Reconciled' =>
        \A i \in DOMAIN last'.snap :
            LET update == last'.snap[i]
                n == update.number
            IN  n \in Keys(cameras) =>
                    CountNotes(notes', "status", n) =
                        IF \/ cameras[n].armed # update.armed
                           \/ cameras[n].connected # update.connected
                           \/ cameras[n].sensitivity # update.sensitivity
                        THEN 1 ELSE 0]_svars

\* C6 witness: a snapshot that only renames cameras met a live map in
\* which a record had disarmed camera 1: 'status' for camera 1, and
\* nothing for camera 2, whose name alone differed.
C6_Witness ==
    /\ Reconciled
    /\ last.snap = <<Base(1), [Base(2) EXCEPT !.name = "renamed"]>>
    /\ notes = <<Callout("status", 1, ""),
                 [Callout("ready", 0, "") EXCEPT !.cams = cameras]>>

\* C7: a reconciliation calls out 'ready' exactly once, as its last callout,
\* with the camera map as the reconciliation leaves it.
C7_ReadyLast ==
    Reconciled =>
        /\ notes # <<>>
        /\ notes[Len(notes)] = [Callout("ready", 0, "") EXCEPT !.cams = cameras]
        /\ \A i \in 1..(Len(notes) - 1) : notes[i].t # "ready"

\* C7 witness: a reconciliation that added, changed and removed a camera.
C7_Witness ==
    /\ Reconciled
    /\ \E a, b, c \in CamNums :
        /\ HasNote(notes, "added", a)
        /\ HasNote(notes, "status", b)
        /\ HasNote(notes, "removed", c)

\* The handlers that run for a continuation of a closed Request.
StaleOps == {"stale end", "stale error", "stale record"}

\* C17 as claimed: a continuation delivered for a tap Request that was
\* closed is a no-op: the step calls nothing out, leaves the cameras as
\* they are, starts no Request and does not close or replace the tap the
\* session holds.
C17_StaleIsNoOp ==
    [][last'.op \in StaleOps =>
        /\ notes' = <<>>
        /\ cameras' = cameras
        /\ reqs' = reqs
        /\ events' = events]_svars

\* update() ran in the step: a Request for /++systemInfo was started, or
\* its host did not resolve and that was called out.
UpdateStarted ==
    \/ \E s \in InfoSlots :
            WasFree(s) /\ reqs'[s].kind = "info" /\ reqs'[s].st = "connecting"
    \/ notes' = <<Callout("ERROR", 0, "resolve")>>
\* The labels of the rules that carry a camera number.
CameraStates ==
    {"motion", "trigger", "classify", "online", "offline", "error", "active",
     "passive", "arm", "disarm"}

\* C18: a CONFIGCHANGE record, with or without a camera prefix, starts a
\* fetch of /++systemInfo and goes to no camera: the step changes no field
\* of any camera and makes no callout of a camera.
C18_ConfigChangeRefetches ==
    [][last'.op = "change" =>
        /\ UpdateStarted
        /\ cameras' = cameras
        /\ \A i \in DOMAIN notes' : notes'[i].n = 0]_svars

\* C18 witness: a CONFIGCHANGE with a camera prefix arrived while cameras
\* were tracked, and the fetch it started is connecting.
C18_Witness ==
    /\ last.op = "change" /\ last.n = 1
    /\ 1 \in Keys(cameras)
    /\ notes = <<>>
    /\ \E s \in InfoSlots : reqs[s].kind = "info" /\ reqs[s].st = "connecting"

\* C19: a record of a camera whose number is not in the camera map is no
\* error and goes to no camera: the step starts a fetch of /++systemInfo,
\* leaves the cameras as they are and calls nothing out (but the failure
\* of that fetch to resolve its host, if it fails).
C19_UnknownCameraRefetches ==
    [][last'.op \in CameraStates /\ last'.n \notin Keys(cameras) =>
        /\ UpdateStarted
        /\ cameras' = cameras
        /\ \A i \in DOMAIN notes' : notes'[i] = Callout("ERROR", 0, "resolve")]_svars

\* C19 witness: a MOTION record of camera 1 arrived while camera 1 was
\* not tracked; nothing was called out and the fetch is connecting.
C19_Witness ==
    /\ last.op = "motion" /\ last.n = 1
    /\ 1 \notin Keys(cameras)
    /\ notes = <<>>
    /\ \E s \in InfoSlots : reqs[s].kind = "info" /\ reqs[s].st = "connecting"

\* C20: a line that only the catch-all rule matches is called out as an
\* error and changes nothing else: the tap Request stays the session's
\* tap, open and with the grammar installed, and a record of a tracked
\* camera that comes next is routed to that camera.
C20_UnknownLineKeepsTap ==
    [][/\ last'.op = "unknown" =>
            /\ notes' = <<Callout("ERROR", 0, "unknown event tap")>>
            /\ reqs' = reqs /\ events' = events /\ cameras' = cameras
            /\ events' = last'.r
            /\ reqs'[events'].st = "body" /\ reqs'[events'].scan = "tap"
       /\ last.op = "unknown" /\ last'.op \in CameraStates
                /\ last'.n \in Keys(cameras) =>
            HasNote(notes', last'.op, last'.n)]_svars

\* C20 witness: an unknown line was called out as an error while a camera
\* was tracked, and the tap is still reading records.
C20_Witness ==
    /\ last.op = "unknown"
    /\ notes = <<Callout("ERROR", 0, "unknown event tap")>>
    /\ events # 0 /\ reqs[events].st = "body" /\ reqs[events].scan = "tap"
    /\ 1 \in Keys(cameras)

\* A full-state fetch that is under way: its Request was created and has
\* neither been closed nor failed.
InFlight(rq) == {s \in InfoSlots : rq[s].kind = "info"
                                    /\ rq[s].st \notin {"closed", "failed"}}

\* C21: in every reachable state at most one /++systemInfo request is in
\* flight, also when the triggers of a refresh (update(), CONFIGCHANGE, a
\* record of an unknown camera, OFFLINE) overlap.
C21_AtMostOneFetch == Cardinality(InFlight(reqs)) <= 1

C25_TapHeaders ==
    [][last'.op = "headers" =>
        /\ notes'[1] = Callout("event tap", 0, last'.status)
        /\ NothingStarted
        /\ cameras' = cameras
        /\ IF last'.status = "200"
           THEN /\ Len(notes') = 1
                /\ events' = last'.r
                /\ reqs'[last'.r].st = "body" /\ reqs'[last'.r].scan = "tap"
           ELSE /\ notes' = <<Callout("event tap", 0, last'.status),
                              Callout("ERROR", 0, StatusError(last'.status))>>
                /\ NowClosed(last'.r)
                /\ events' = 0
                /\ \A s \in TapSlots : ~IsOpenTap(reqs', s)]_svars

\* C25 witness: the tap was refused with 404; both callouts were made and
\* the session has no tap.
C25_Witness ==
    /\ last.op = "headers" /\ last.status = "404"
    /\ notes = <<Callout("event tap", 0, "404"),
                 Callout("ERROR", 0, StatusError("404"))>>
    /\ events = 0

\* C26: when a full-state fetch completes with a status other than 200,
\* the body is not parsed: the StatusError is the step's only callout,
\* the camera map is as it was and no Request was started.
C26_StatusErrorAbandons ==
    [][last'.op = "info end" /\ last'.status # "200" =>
        /\ notes' = <<Callout("ERROR", 0, StatusError(last'.status))>>
        /\ cameras' = cameras
        /\ events' = events
        /\ NothingStarted]_svars

\* C26 witness: a fetch was answered with 404 while camera 1 was tracked
\* and the session had no tap.
C26_Witness ==
    /\ last.op = "info end" /\ last.status = "404"
    /\ notes = <<Callout("ERROR", 0, StatusError("404"))>>
    /\ 1 \in Keys(cameras)
    /\ events = 0

\* C27: self._events is None or refers to a Request that is open: one that
\* was neither closed nor failed to start.
C27_EventsIsOpen ==
    events # 0 => reqs[events].kind = "tap"
                  /\ reqs[events].st \notin {"closed", "failed"}

\* C28: in the step that follows close(), unless that step is open(), the
\* session has no tap and starts none.
C28_NoTapAfterClose ==
    [][last.op = "close" /\ last'.op # "open" =>
        /\ events' = 0
        /\ \A s \in TapSlots : WasFree(s) => reqs'[s].kind = "free"]_svars

\* C29: for a camera number that is in the live map and in the snapshot,
\* a reconciliation takes name, size, connectivity, armed set and
\* sensitivity from the snapshot and leaves the number and the fields
\* _refresh does not assign (device) as the live record had them.
C29_RefreshFrame ==
    [][Reconciled' =>
        \A i \in DOMAIN last'.snap :
            LET update == last'.snap[i]
                n == update.number
            IN  n \in Keys(cameras) =>
                    /\ cameras'[n].number = cameras[n].number
                    /\ cameras'[n].device = cameras[n].device
                    /\ cameras'[n].name = update.name
                    /\ cameras'[n].size = update.size
                    /\ cameras'[n].connected = update.connected
                    /\ cameras'[n].armed = update.armed
                    /\ cameras'[n].sensitivity = update.sensitivity]_svars

\* C29 witness: a snapshot that lists camera 1 with another device was
\* reconciled and the live record of camera 1 still has the device it was
\* added with.
C29_Witness ==
    /\ Reconciled
    /\ \E i \in DOMAIN last.snap :
            /\ last.snap[i].number = 1
            /\ last.snap[i].device = "replaced"
    /\ cameras[1].device = "dev"

\* The mask of the TRIGGER line on the connection, and the reasons whose
\* bit it has set.
MaskOnLine == ParseInt(SubSeq(stream, Len(TriggerHead) + 3, Len(stream) - 1))
ReasonsSet(mask) ==
    { MOTION_CODES[code] : code \in {c \in DOMAIN MOTION_CODES : mask % (2 * c) >= c} }

\* C24: a TRIGGER record of a tracked camera is called out once, as
\* 'trigger' on that camera, with the mode's name (recording for M, action
\* for A) and the set of the reasons whose bit is set in the mask, which is
\* {motion} if no known bit is set; no camera field and no Request changes.
C24_TriggerReasons ==
    [][last'.op = "trigger" =>
        LET mode == stream[Len(TriggerHead) + 1]
            named == ReasonsSet(MaskOnLine)
        IN  /\ notes' = << Callout("trigger", 1,
                            << IF mode = "M" THEN "recording" ELSE "action",
                               IF named = {} THEN {"motion"} ELSE named >>) >>
            /\ (MaskOnLine = 3 => notes'[1].arg[2] = {"motion", "audio"})
            /\ cameras' = cameras
            /\ reqs' = reqs /\ events' = events]_vars

\* C24 witness: the line TRIGGER_M 3 for camera 1 was called out as a
\* recording trigger for motion and audio.
C24_Witness ==
    /\ last.op = "trigger"
    /\ stream = TriggerLine("M", <<"3">>)
    /\ notes = << Callout("trigger", 1, <<"recording", {"motion", "audio"}>>) >>
    /\ cameras[1] = Base(1)

(***************************************************************************)
(* The state machine of one Request at the level of bytes.  stream is what *)
(* the server sends on the connection, wire what of it has not arrived.    *)
(***************************************************************************)
\* The session is not followed here: it stays as constructed.
SessionIdle ==
    /\ reqs = Constructed.reqs
    /\ events = Constructed.events
    /\ cameras = Constructed.cameras
    /\ notes = Constructed.notes
    /\ last = [op |-> "none", r |-> 0, snap |-> NoSnap, again |-> FALSE, n |-> 0,
               status |-> ""]
    /\ synced = NoSnap

\* How many error contexts one connection delivers at most.
MaxErrors == 2

HttpInit ==
    /\ SessionIdle
    /\ MotionIdle
    /\ \/ /\ \E resolved \in BOOLEAN : http = OpenRequest("fetch", resolved)
          /\ stream \in HttpStreams
       \/ http = TapReading /\ stream \in TapStreams
    /\ wire = stream

\* Request._connected: the connector completes, with a socket or an error.
ConnectorDone(ok) ==
    /\ http.st = "connecting"
    /\ http' = IF ok THEN SendRequest(http)
               ELSE RequestCallout([http EXCEPT !.st = "failed"],
                                   "ERROR", <<"connect">>)
    /\ UNCHANGED <<wire, stream>>
    /\ UNCHANGED svars
    /\ UNCHANGED mvars

\* The next k bytes arrive in one piece and are fed to the scanner.
Receive(k) ==
    /\ http.st = "open"
    /\ k \in 1..Len(wire)
    /\ http' = Feed(http, SubSeq(wire, 1, k))
    /\ wire' = SubSeq(wire, k + 1, Len(wire))
    /\ UNCHANGED stream
    /\ UNCHANGED svars
    /\ UNCHANGED mvars

\* The peer closes the connection when all it sent has arrived.
PeerClose ==
    /\ http.st = "open"
    /\ wire = <<>>
    /\ http' = Incoming(http, "END", <<>>)
    /\ UNCHANGED <<wire, stream>>
    /\ UNCHANGED svars
    /\ UNCHANGED mvars

\* An error context arrives from the connection or from a coder.  The
\* connection goes on delivering as long as nobody has closed it.
StreamError ==
    /\ http.st = "open"
    /\ Cardinality({i \in DOMAIN http.calls : http.calls[i].t = "ERROR"}) < MaxErrors
    /\ http' = Incoming(http, "ERROR", <<"io">>)
    /\ UNCHANGED <<wire, stream>>
    /\ UNCHANGED svars
    /\ UNCHANGED mvars

HttpNext ==
    \/ \E ok \in BOOLEAN : ConnectorDone(ok)
    \/ \E k \in 1..Len(wire) : Receive(k)
    \/ PeerClose
    \/ StreamError

HttpSpec == HttpInit /\ [][HttpNext]_vars

(***************************************************************************)
(* What a Request writes.  The Request is the record of Part II with the   *)
(* fields _sendRequest reads: action, query (the query string, "" for      *)
(* none), body_request ("" for none), auth (whether a BasicAuth is set),   *)
(* h_request (the request headers as <<name, value>> in the order they     *)
(* were added), http_version; and written, the lines handed to write(),    *)
(* which appends CR LF to each.                                            *)
(***************************************************************************)
MaxChunks == 2

RequestFor(action, query, body, auth, h_request, http_version) ==
    NewRequest("fetch") @@
    [action |-> action, query |-> query, body_request |-> body, auth |-> auth,
     h_request |-> h_request, http_version |-> http_version, written |-> <<>>]

\* len() of the strings the model sends, as decimal text.
LenText(text) ==
    CASE text = "k=v" -> "3"
      [] text = "body" -> "4"

\* BasicAuth.write_headers
WriteHeaders(R) == <<"Authorization: Basic dTpw">>

\* The lines _sendRequest writes, in order.
SendRequestLines(R) ==
    LET uri == IF R.action # "POST" /\ R.query # "" THEN "/p?" \o R.query ELSE "/p"
        head == << R.action \o " " \o uri \o " HTTP/" \o R.http_version,
                   "Host: h",
                   "Connection: close" >>
                \o [i \in DOMAIN R.h_request |->
                        R.h_request[i][1] \o ": " \o R.h_request[i][2]]
                \o (IF R.auth THEN WriteHeaders(R) ELSE <<>>)
    IN  IF R.action = "POST"
        THEN IF R.query # ""
             THEN head \o << "Content-Length: " \o LenText(R.query),
                             "Content-Type: application/x-www-form-urlencoded",
                             "", R.query >>
             ELSE IF R.body_request # ""
             THEN head \o << "Content-Length: " \o LenText(R.body_request),
                             "", R.body_request >>
             ELSE head
        ELSE Append(head, "")

\* The request headers a Request has when it is opened: Accept-Encoding
\* from the constructor if the gzip coder is there, what the caller added,
\* User-Agent from open().
RequestHeaders ==
    { << <<"User-Agent", "cy-asyn/1.1">> >>,
      << <<"Accept-Encoding", "gzip">>, <<"User-Agent", "cy-asyn/1.1">> >>,
      << <<"Accept-Encoding", "gzip">>, <<"X-Caller", "x">>,
         <<"User-Agent", "cy-asyn/1.1">> >> }

SendInit ==
    /\ SessionIdle
    /\ MotionIdle
    /\ \E action \in {"GET", "POST"}, query \in {"", "k=v"}, body \in {"", "body"},
          auth \in BOOLEAN, h_request \in RequestHeaders,
          http_version \in {"1.0", "1.1"} :
            http = RequestFor(action, query, body, auth, h_request, http_version)
    /\ wire = <<>>
    /\ stream = <<>>

\* Request._connected with a socket: _sendRequest installs the header rule
\* set and writes the request.
ConnectedSend ==
    /\ http.st = "connecting"
    /\ http' = [SendRequest(http) EXCEPT !.written = @ \o SendRequestLines(http)]
    /\ UNCHANGED <<wire, stream>>
    /\ UNCHANGED svars
    /\ UNCHANGED mvars

\* The caller of a POST with neither query nor body streams its body:
\* Request.write.
CallerWrite ==
    /\ http.st = "open"
    /\ http.action = "POST" /\ http.query = "" /\ http.body_request = ""
    /\ Cardinality({i \in DOMAIN http.written : http.written[i] = "chunk"}) < MaxChunks
    /\ http' = [http EXCEPT !.written = Append(@, "chunk")]
    /\ UNCHANGED <<wire, stream>>
    /\ UNCHANGED svars
    /\ UNCHANGED mvars

SendNext == ConnectedSend \/ CallerWrite

SendSpec == SendInit /\ [][SendNext]_vars

(***************************************************************************)
(* A motion trigger of the plugin (plugin.py, CameraMotion).  camera is    *)
(* the number of the camera the trigger is for, 0 for none; last_motion    *)
(* is 0 for None (Python takes both for false, and time.time() is          *)
(* positive).  Time is counted in whole seconds.                           *)
(***************************************************************************)
MaxTime == 5
MaxThrottle == 3

CameraMotion(camera, throttle, type, trigger_reason, recognition_type, recognition_threshold, recognition_negate) ==
    [camera |-> camera, throttle |-> throttle, type |-> type,
     trigger_reason |-> trigger_reason, recognition_type |-> recognition_type,
     recognition_threshold |-> recognition_threshold,
     recognition_negate |-> recognition_negate, last_motion |-> 0]

\* recognized.get(key) or 0
GetOrZero(recognized, key) ==
    IF key \in DOMAIN recognized THEN recognized[key] ELSE 0

\* The filters of matches: camera, type, reason, recognition.
Deliverable(self, camera, type, args) ==
    /\ self.camera # 0 => self.camera = camera
    /\ self.type = type
    /\ type \in {"recording", "action"} =>
            ~(/\ self.trigger_reason # ""
              /\ self.trigger_reason # "any"
              /\ self.trigger_reason \notin args)
    /\ type = "raw" /\ self.recognition_type # "raw" =>
            (GetOrZero(args, self.recognition_type) >= self.recognition_threshold)
                # self.recognition_negate

\* A matches that sets its mark on every event it is asked about.
MatchesMarksAll(self, camera, type, args, now) ==
    [result |-> /\ Deliverable(self, camera, type, args)
                /\ ~(self.last_motion # 0 /\ self.last_motion + self.throttle > now),
     self |-> [self EXCEPT !.last_motion = now]]

\* CameraMotion.matches at time now: the result and the object after it.
Matches(self, camera, type, args, now) ==
    IF ~Deliverable(self, camera, type, args)
    THEN [result |-> FALSE, self |-> self]
    ELSE IF self.last_motion # 0 /\ self.last_motion + self.throttle > now
    THEN [result |-> FALSE, self |-> self]
    ELSE [result |-> TRUE, self |-> [self EXCEPT !.last_motion = now]]

\* The triggers a user can configure: for a camera or for all, with a
\* throttle of at least 1, cooked (by reason) or raw (by recognition).
Triggers ==
    { CameraMotion(camera, throttle, type, trigger_reason, "raw", 0, FALSE) :
        camera \in {0, 1}, throttle \in 1..MaxThrottle,
        type \in {"recording", "action"}, trigger_reason \in {"", "any", "audio"} }
    \cup
    { CameraMotion(camera, throttle, "raw", "", recognition_type, 50, negate) :
        camera \in {0, 1}, throttle \in 1..MaxThrottle,
        recognition_type \in {"raw", "human"}, negate \in BOOLEAN }

\* What Camera._event hands to CameraMotion.trigger: the type and the set
\* of reasons, or 'raw' and the classifier's strengths.
MotionEvents ==
    { <<type, reasons>> : type \in {"recording", "action"},
                          reasons \in {{"motion"}, {"motion", "audio"}} }
    \cup
    { <<"raw", recognized>> :
        recognized \in {<<>>, [key \in {"human"} |-> 80], [key \in {"human"} |-> 20]} }

MotionInit ==
    /\ SessionIdle
    /\ HttpIdle
    /\ trigger \in Triggers
    /\ motion = [camera |-> 0, type |-> "", args |-> {}, now |-> 0, result |-> FALSE]
    /\ accepted = <<>>

\* A camera event at time now, not before the event before it.
MotionEvent(camera, ev, now) ==
    /\ now >= motion.now
    /\ \E m \in {Matches(trigger, camera, ev[1], ev[2], now)} :
        /\ trigger' = m.self
        /\ motion' = [camera |-> camera, type |-> ev[1], args |-> ev[2],
                      now |-> now, result |-> m.result]
        /\ accepted' = IF m.result THEN Append(accepted, now) ELSE accepted
    /\ UNCHANGED svars
    /\ UNCHANGED hvars

MotionNext ==
    \E camera \in {1, 2}, ev \in MotionEvents, now \in 1..MaxTime :
        MotionEvent(camera, ev, now)

MotionSpec == MotionInit /\ [][MotionNext]_vars

(***************************************************************************)
(* Properties of the Request.                                              *)
(***************************************************************************)
Tags(calls) == [i \in DOMAIN calls |-> calls[i].t]
\* The place of a callout in the order status, headers, terminal.
Rank(t) ==
    CASE t = "status" -> 1
      [] t = "headers" -> 2
      [] t \in {"body", "ERROR"} -> 3
      [] OTHER -> 0
\* The events that rules matched (raw pass-through is per piece by design).
IsLabeled(e) == e.label # "RAW"
Labeled(scanned) == SelectSeq(scanned, IsLabeled)
\* The Request after the whole stream was fed in one piece.
Whole(owner, s) ==
    Feed(IF owner = "tap" THEN TapReading ELSE SendRequest(NewRequest(owner)), s)
\* Where the first blank line of s ends (0: there is none): the position
\* of the LF of the first CR LF CR LF.
BlankLineEnd(s) ==
    LET at == {i \in DOMAIN s : Lit(s, i, CRLF \o CRLF)}
    IN  IF at = {} THEN 0
        ELSE (CHOOSE i \in at : \A j \in at : i <= j) + 3
AfterBlankLine(s) == SubSeq(s, BlankLineEnd(s) + 1, Len(s))

\* C8 as claimed: the callouts of a request are, in this order, one
\* 'status', one 'headers' and one terminal callout (the body or an
\* error); an error may end the sequence early; nothing else is called
\* out, nothing twice, and a request that was closed has had its
\* terminal callout.
C8_CalloutOrder ==
    http.owner = "fetch" =>
        LET t == Tags(http.calls)
        IN  /\ \A i \in DOMAIN t : Rank(t[i]) # 0
            /\ \A i, j \in DOMAIN t : i < j => Rank(t[i]) < Rank(t[j])
            /\ \A i \in DOMAIN t : t[i] = "headers" => i = 2 /\ t[1] = "status"
            /\ \A i \in DOMAIN t : t[i] = "body" => i = 3 /\ t[2] = "headers"
            /\ http.st = "closed" => t # <<>> /\ Rank(t[Len(t)]) = 3

\* The stream has a header with this name, in whatever letter case.
HasHeaderNamed(s, name) ==
    \E i \in DOMAIN s : Lit(LowerOf(s), i, Append(LowerOf(name), ":"))
TransferEncoding == <<"T", "r", "a", "n", "s", "f", "e", "r", "-", "E", "n", "c", "o", "d", "i", "n", "g">>
ContentEncoding == <<"C", "o", "n", "t", "e", "n", "t", "-", "E", "n", "c", "o", "d", "i", "n", "g">>
Unframed(s) ==
    ~HasHeaderNamed(s, TransferEncoding) /\ ~HasHeaderNamed(s, ContentEncoding)

\* C9 as claimed: for a reply without Transfer-Encoding and
\* Content-Encoding, 'body' is called out at most once and only when the
\* peer has closed, and once the peer has closed after a reply with a
\* blank line, 'body' was called out with all the bytes after the blank
\* line, however the bytes arrived.
C9_BodyIsRest ==
    http.owner = "fetch" /\ Unframed(stream) =>
        LET bodies == {i \in DOMAIN http.calls : http.calls[i].t = "body"}
        IN  /\ Cardinality(bodies) <= 1
            /\ bodies # {} => http.st = "closed" /\ wire = <<>>
            /\ http.st = "closed" /\ BlankLineEnd(stream) # 0 =>
                    \E i \in bodies : http.calls[i].arg = AfterBlankLine(stream)

\* C10 as claimed: when all bytes of a stream have arrived, the events the
\* rules produced, labels and groups, are those that feeding the stream in
\* one piece produces, for the header rule set and for the tap grammar.
C10_ChunkIndependent ==
    wire = <<>> /\ http.st \in {"open", "closed"} =>
        Labeled(http.scanned) = Labeled(Whole(http.owner, stream).scanned)

\* The header lines the scanner reported, and the values it reported for
\* one header name, in the order of arrival.
IsHeader(e) == e.label = "header"
HeaderEvents(R) == SelectSeq(R.scanned, IsHeader)
ValuesArrived(R, key) ==
    LET IsKey(e) == e.groups[1] = key
        evs == SelectSeq(HeaderEvents(R), IsKey)
    IN  [i \in DOMAIN evs |-> evs[i].groups[2]]
\* The values the header map h holds for one name.
ValuesHeld(h, key) ==
    LET IsKey(item) == item[1] = key
        items == SelectSeq(h, IsKey)
    IN  [i \in DOMAIN items |-> items[i][2]]
\* A header the scanner reported declares this coding: the name in
\* whatever letter case, the value in whatever letter case, alone or
\* followed by a semicolon and parameters.
Declares(R, name, coding) ==
    \E i \in DOMAIN R.scanned :
        /\ R.scanned[i].label = "header"
        /\ LowerOf(R.scanned[i].groups[1]) = LowerOf(name)
        /\ \/ LowerOf(R.scanned[i].groups[2]) = coding
           \/ Lit(LowerOf(R.scanned[i].groups[2]), 1, Append(coding, ";"))
Chunked == <<"c", "h", "u", "n", "k", "e", "d">>
GZip == <<"g", "z", "i", "p">>
HasCall(R, t) == \E i \in DOMAIN R.calls : R.calls[i].t = t

\* C11 as claimed: when the reply does not begin with a status line (a
\* header line or the blank line comes first), the request ends in
\* error: no 'headers' and no 'body' is called out, and once the reply
\* has arrived an error has been called out.
C11_StatusLineFirst ==
    http.owner = "fetch" /\ StatusRule(stream).len = 0 =>
        /\ ~HasCall(http, "headers") /\ ~HasCall(http, "body")
        /\ wire = <<>> /\ http.st # "connecting" => HasCall(http, "ERROR")

\* C12 as claimed: the header map of the 'headers' callout holds, for
\* every header name, all the values that arrived under that name, in
\* the order of arrival.
C12_RepeatedHeaderKeepsAll ==
    \A i \in DOMAIN http.calls :
        http.calls[i].t = "headers" =>
            \A j \in DOMAIN http.scanned :
                http.scanned[j].label = "header" =>
                    ValuesHeld(http.calls[i].arg, http.scanned[j].groups[1])
                        = ValuesArrived(http, http.scanned[j].groups[1])

\* C13 as claimed: once the headers are complete, the chunked coder is in
\* place exactly when a Transfer-Encoding header declares chunked, and the
\* gzip coder exactly when a Content-Encoding header declares gzip,
\* whatever the letter case of the header name and of the value.
C13_FramingIgnoresCase ==
    http.owner = "fetch" /\ HasCall(http, "headers") =>
        /\ Declares(http, TransferEncoding, Chunked)
                <=> \E k \in DOMAIN http.filters : http.filters[k] = "ChunkedCoder"
        /\ Declares(http, ContentEncoding, GZip)
                <=> \E k \in DOMAIN http.filters : http.filters[k] = "GZipCoder"

\* C14 as claimed: once the headers are complete, the coders between the
\* connection and the body accumulator are the chunked coder if chunked
\* is declared, then the gzip coder if gzip is declared, and no others;
\* with a coder in place every byte after the blank line is handed to the
\* first coder and none reaches the accumulator directly.
C14_ChunkedThenGZip ==
    http.owner = "fetch" /\ HasCall(http, "headers") =>
        /\ http.filters =
                (IF Declares(http, TransferEncoding, Chunked)
                 THEN <<"ChunkedCoder">> ELSE <<>>)
                \o (IF Declares(http, ContentEncoding, GZip)
                    THEN <<"GZipCoder">> ELSE <<>>)
        /\ Declares(http, TransferEncoding, Chunked)
                \/ Declares(http, ContentEncoding, GZip) =>
              /\ http.body_reply = <<>>
              /\ http.coded \o http.buf \o wire = AfterBlankLine(stream)

\* C15 as claimed: an error callout is the last callout of a request: a
\* failure to resolve, a failure to connect and an error on the open
\* connection are each called out once, and nothing is called out after.
C15_ErrorIsLast ==
    \A i \in DOMAIN http.calls :
        http.calls[i].t = "ERROR" => i = Len(http.calls)

\* C16 as claimed: in every state after the 'body' callout or an error
\* callout the Request holds no open connection: it has closed it, or
\* none was ever made.
C16_ClosedAfterTerminal ==
    HasCall(http, "body") \/ HasCall(http, "ERROR") =>
        http.st \in {"closed", "failed"}


\* The lines written before the first blank line, and the place of that
\* line (0 if there is none).
BlankAt(w) ==
    IF \E k \in DOMAIN w : w[k] = ""
    THEN CHOOSE k \in DOMAIN w : w[k] = "" /\ \A j \in 1..(k - 1) : w[j] # ""
    ELSE 0
BodyTexts == {"k=v", "body", "chunk"}

\* C23: what a Request has written is, in order: the request line, Host,
\* Connection: close, the request headers in the order they were added,
\* the Authorization header if credentials are set, then (after the entity
\* headers Content-Length and Content-Type of a POST) a blank line, and
\* body bytes only after that blank line.
C23_WriteOrder ==
    http.st = "open" =>
        LET w == http.written
            n == Len(http.h_request)
            a == IF http.auth THEN 1 ELSE 0
            k == BlankAt(w)
        IN  /\ k > 3 + n + a
            /\ w[1] \in {http.action \o " " \o uri \o " HTTP/" \o http.http_version :
                            uri \in {"/p", "/p?k=v"}}
            /\ w[2] = "Host: h"
            /\ w[3] = "Connection: close"
            /\ \A i \in 1..n :
                    w[3 + i] = http.h_request[i][1] \o ": " \o http.h_request[i][2]
            /\ http.auth => w[3 + n + 1] = "Authorization: Basic dTpw"
            /\ \A j \in (3 + n + a + 1)..(k - 1) :
                    w[j] \in {"Content-Length: 3", "Content-Length: 4",
                              "Content-Type: application/x-www-form-urlencoded"}
            /\ \A j \in DOMAIN w : w[j] \in BodyTexts => j > k
            /\ \A j \in (k + 1)..Len(w) : w[j] \in BodyTexts

(***************************************************************************)
(* Properties of the motion trigger.                                       *)
(***************************************************************************)
\* The call of matches the step made was for an event the trigger's
\* camera, type, reason or recognition setting excludes.
FilteredOut ==
    \/ trigger.camera # 0 /\ motion'.camera # trigger.camera
    \/ motion'.type # trigger.type
    \/ /\ motion'.type \in {"recording", "action"}
       /\ trigger.trigger_reason \in {"audio"}
       /\ "audio" \notin motion'.args
    \/ /\ motion'.type = "raw" /\ trigger.recognition_type = "human"
       /\ trigger.recognition_negate =
            ("human" \in DOMAIN motion'.args /\ motion'.args["human"] >= 50)

\* C30: with events at non-decreasing times, any two calls of matches
\* that returned True are at least throttle seconds apart, and a call for
\* an event that the camera, type, reason or recognition filter rejects
\* returns False and leaves last_motion as it was.
C30_Throttle ==
    [][/\ \A i, j \in DOMAIN accepted' :
            i < j => accepted'[j] - accepted'[i] >= trigger'.throttle
       /\ FilteredOut =>
            /\ ~motion'.result
            /\ trigger'.last_motion = trigger.last_motion
            /\ accepted' = accepted]_mvars

\* C30 witness: a trigger with throttle 2 accepted events at 1 and 3, and
\* the last event, at 4, was of another camera and rejected.
C30_Witness ==
    /\ trigger.throttle = 2 /\ trigger.camera = 1
    /\ accepted = <<1, 3>>
    /\ motion.camera = 2 /\ motion.now = 4 /\ ~motion.result
    /\ trigger.last_motion = 3

=============================================================================
